---------------------------- MODULE Spec2Model ----------------------------
(***************************************************************************)
(* A model of Run.py, the Like4Like multi-mode bot: the credential store   *)
(* (Store), the start-up sequence and the run loop of Bot.run, and the     *)
(* target-URL computation.                                                  *)
(*                                                                         *)
(* Texts (cookie strings, file contents, identifiers, URLs, console input) *)
(* are sequences of one-character strings.  A Python dict is a sequence of *)
(* [k, v] records with distinct keys, in insertion order.                  *)
(***************************************************************************)
EXTENDS Integers, Sequences, FiniteSets, TLC

\* ------------------------------------------------------------------ bounds
\* Longest cookie text drawn for the store round trip.
MaxLen == 1
\* Longest task listing the rewards site returns.
MaxTasks == 2
\* Largest delay the user types as a number.
MaxDelay == 2
\* Longest tail of a task's target identifier, after its prefix.
MaxIdLen == 1

\* ------------------------------------------------------------------- texts
\* str.startswith
startswith(s, p) == Len(s) >= Len(p) /\ SubSeq(s, 1, Len(p)) = p

\* Characters str.strip() removes.
Whitespace == {" ", "\n", "\t", "\r"}

RECURSIVE lstrip(_)
lstrip(s) == IF s # <<>> /\ Head(s) \in Whitespace THEN lstrip(Tail(s)) ELSE s

RECURSIVE rstrip(_)
rstrip(s) ==
    IF s # <<>> /\ s[Len(s)] \in Whitespace THEN rstrip(SubSeq(s, 1, Len(s) - 1)) ELSE s

strip(s) == rstrip(lstrip(s))

\* ---------------------------------------------------------- dicts (Python)
Keys(d) == {d[i].k : i \in 1..Len(d)}

Has(d, key) == key \in Keys(d)

\* d.get(key, default)
Get(d, key, default) ==
    IF Has(d, key) THEN (CHOOSE e \in {d[i] : i \in 1..Len(d)} : e.k = key).v ELSE default

\* d[key] = val : an existing key keeps its position, a new one is appended.
Put(d, key, val) ==
    IF Has(d, key)
    THEN [i \in 1..Len(d) |-> IF d[i].k = key THEN [k |-> key, v |-> val] ELSE d[i]]
    ELSE Append(d, [k |-> key, v |-> val])

\* dict equality ignores the insertion order.
DictEq(a, b) == /\ Keys(a) = Keys(b)
                /\ \A key \in Keys(a) : Get(a, key, <<>>) = Get(b, key, <<>>)

\* ------------------------------------------------------- json.dump / load
\* The one non-ASCII character of the model, U+00E9, written "E9" here;
\* json.dump (ensure_ascii=True) writes it as the six characters \u00e9.
NonAscii == "E9"

\* The backspace character, written "BS" here.
Backspace == "BS"

\* json.dump's escape of one character of a string.
EscapeQuotesOnly(c) ==
    IF c = "\"" THEN <<"\\", "\"">> ELSE <<c>>

Escape(c) ==
    CASE c = "\"" -> <<"\\", "\"">>
      [] c = "\\" -> <<"\\", "\\">>
      [] c = "\n" -> <<"\\", "n">>
      [] c = "\t" -> <<"\\", "t">>
      [] c = "\r" -> <<"\\", "r">>
      [] c = NonAscii -> <<"\\", "u", "0", "0", "e", "9">>
      [] OTHER -> <<c>>

RECURSIVE EscapeAll(_)
EscapeAll(s) == IF s = <<>> THEN <<>> ELSE Escape(Head(s)) \o EscapeAll(Tail(s))

\* A JSON string literal.
Quoted(s) == <<"\"">> \o EscapeAll(s) \o <<"\"">>

\* One "key": "value" line of the indent=2 layout.
Item(e) == <<" ", " ">> \o Quoted(e.k) \o <<":", " ">> \o Quoted(e.v)

RECURSIVE Items(_)
Items(d) ==
    IF Len(d) = 1 THEN Item(d[1])
    ELSE Item(d[1]) \o <<",", "\n">> \o Items(Tail(d))

\* json.dump(data, f, indent=2) of a dict of string keys and string values.
dumps(d) ==
    IF d = <<>> THEN <<"{", "}">>
    ELSE <<"{", "\n">> \o Items(d) \o <<"\n", "}">>

\* The parser's results.
ParseFail == [ok |-> FALSE, val |-> <<>>, next |-> 0]

RECURSIVE SkipWs(_, _)
SkipWs(s, i) == IF i <= Len(s) /\ s[i] \in Whitespace THEN SkipWs(s, i + 1) ELSE i

HexDigits == {"0", "1", "2", "3", "4", "5", "6", "7", "8", "9",
              "a", "b", "c", "d", "e", "f", "A", "B", "C", "D", "E", "F"}

\* The character a \uXXXX escape stands for ("?" for the ones that are no
\* character of the model).
CodePoint(h) == IF h = <<"0", "0", "e", "9">> \/ h = <<"0", "0", "E", "9">>
                THEN NonAscii ELSE "?"

\* The character a two-character escape stands for.
Unescape(c) ==
    CASE c = "n" -> "\n"
      [] c = "t" -> "\t"
      [] c = "r" -> "\r"
      [] c = "b" -> Backspace
      [] c = "f" -> "\f"
      [] OTHER -> c

\* json's scanstring, from the character after the opening quote (strict:
\* a raw control character ends the parse with an error).
RECURSIVE ScanString(_, _, _)
ScanString(s, i, acc) ==
    IF i > Len(s) THEN ParseFail
    ELSE IF s[i] = "\"" THEN [ok |-> TRUE, val |-> acc, next |-> i + 1]
    ELSE IF s[i] \in {"\n", "\t", "\r"} THEN ParseFail
    ELSE IF s[i] # "\\" THEN ScanString(s, i + 1, Append(acc, s[i]))
    ELSE IF i + 1 > Len(s) THEN ParseFail
    ELSE IF s[i + 1] \in {"\"", "\\", "/", "b", "f", "n", "r", "t"}
         THEN ScanString(s, i + 2, Append(acc, Unescape(s[i + 1])))
    ELSE IF /\ s[i + 1] = "u"
            /\ i + 5 <= Len(s)
            /\ \A j \in (i + 2)..(i + 5) : s[j] \in HexDigits
         THEN ScanString(s, i + 6, Append(acc, CodePoint(SubSeq(s, i + 2, i + 5))))
    ELSE ParseFail

\* The members of a JSON object, from the first character after "{" or ","
\* (white space skipped); a repeated key keeps its place and takes the later
\* value, as a Python dict does.
RECURSIVE ScanMembers(_, _, _)
ScanMembers(s, i, acc) ==
    IF i > Len(s) \/ s[i] # "\"" THEN ParseFail
    ELSE LET key == ScanString(s, i + 1, <<>>)
             c   == SkipWs(s, key.next)
             v0  == SkipWs(s, c + 1)
         IN  IF ~key.ok \/ c > Len(s) \/ s[c] # ":" THEN ParseFail
             ELSE IF v0 > Len(s) \/ s[v0] # "\"" THEN ParseFail
             ELSE LET val == ScanString(s, v0 + 1, <<>>)
                      e   == SkipWs(s, val.next)
                  IN  IF ~val.ok \/ e > Len(s) THEN ParseFail
                      ELSE IF s[e] = "}"
                           THEN [ok |-> TRUE, val |-> Put(acc, key.val, val.val),
                                 next |-> e + 1]
                      ELSE IF s[e] = ","
                           THEN ScanMembers(s, SkipWs(s, e + 1),
                                            Put(acc, key.val, val.val))
                      ELSE ParseFail

\* json.load of a text: [ok, kind, val], for the JSON texts made of objects
\* whose values are strings and of bare strings; ok = FALSE is a
\* JSONDecodeError.
loads(s) ==
    LET i == SkipWs(s, 1)
    IN  IF i > Len(s) THEN [ok |-> FALSE, kind |-> "none", val |-> <<>>]
        ELSE IF s[i] = "\""
        THEN LET r == ScanString(s, i + 1, <<>>)
             IN  IF r.ok /\ SkipWs(s, r.next) > Len(s)
                 THEN [ok |-> TRUE, kind |-> "str", val |-> r.val]
                 ELSE [ok |-> FALSE, kind |-> "none", val |-> <<>>]
        ELSE IF s[i] = "{"
        THEN LET j == SkipWs(s, i + 1)
                 r == IF j <= Len(s) /\ s[j] = "}"
                      THEN [ok |-> TRUE, val |-> <<>>, next |-> j + 1]
                      ELSE ScanMembers(s, j, <<>>)
             IN  IF r.ok /\ SkipWs(s, r.next) > Len(s)
                 THEN [ok |-> TRUE, kind |-> "dict", val |-> r.val]
                 ELSE [ok |-> FALSE, kind |-> "none", val |-> <<>>]
        ELSE [ok |-> FALSE, kind |-> "none", val |-> <<>>]

\* ------------------------------------------------------------- variables
VARIABLES
    dirState,        \* the directory Penyimpanan: "dir", "absent" or "blocked"
    file,            \* Penyimpanan/Cookies.json: [exists, perm, text]
    store,           \* Store called on its own: the mapping to save, the last call
    url,             \* the last target URL computed on its own
    pc,              \* the position of Bot().run() in its code
    crashAt,         \* where the exception that ended the process was raised
    db,              \* Bot.db
    cookies_l4l,     \* Bot.cookies_l4l
    info,            \* run's info
    credits,         \* run's credits
    delay,           \* run's delay
    choice,          \* run's choice
    platform_cookie, \* run's platform_cookie
    tasks,           \* run's tasks: None or a list, of which the length is kept
    t,               \* the for loop's t
    idx,             \* the place in tasks of the for loop's t (0: none yet)
    target_url,      \* run's target_url
    processed_any,   \* run's processed_any
    total,           \* run's total
    nInfo,           \* history: calls of get_user_info so far
    nPrompt,         \* history: replacement prompts after a failed user-info call
    steps,           \* history: what was done for the current task, in order
    started,         \* history: the tasks of this listing start_task was called for
    validated,       \* history: the tasks of this listing validate accepted, and its answers
    lastPass,        \* history: how the latest iteration of the loop ended
    ticks,           \* history: one-second sleeps since the latest pass
    flat             \* history: the ten-second wait made since the latest pass

fsVars == <<dirState, file>>

runVars == <<pc, crashAt, db, cookies_l4l, info, credits, delay, choice,
             platform_cookie, tasks, t, idx, target_url, processed_any, total>>

histVars == <<nInfo, nPrompt, steps, started, validated, lastPass, ticks, flat>>

vars == <<dirState, file, store, url, pc, crashAt, db, cookies_l4l, info, credits,
          delay, choice, platform_cookie, tasks, t, idx, target_url, processed_any,
          total, nInfo, nPrompt, steps, started, validated, lastPass, ticks, flat>>

\* ------------------------------------------------------------ file system
\* "blocked": os.makedirs raises (the path is a regular file, or its parent
\* cannot be written).
DirStates == {"dir", "absent", "blocked"}

NoFile == [exists |-> FALSE, perm |-> "rw", text |-> <<>>]

FileOf(text) == [exists |-> TRUE, perm |-> "rw", text |-> text]

\* "locked": open() raises (no permission, or the path is a directory).
Locked(text) == [exists |-> TRUE, perm |-> "locked", text |-> text]

\* ------------------------------------------------------------------ Store
\* Store.ensure_dir: [raised, dir], dir the directory's state afterwards.
ensure_dir(d) ==
    IF d = "dir" THEN [raised |-> FALSE, dir |-> d]
    ELSE IF d = "absent" THEN [raised |-> FALSE, dir |-> "dir"]
    ELSE [raised |-> TRUE, dir |-> d]

\* Store.load: [raised, dir, kind, val].  ensure_dir runs outside the try.
load(d, f) ==
    LET e == ensure_dir(d)
        j == loads(f.text)
    IN  IF e.raised
        THEN [raised |-> TRUE, dir |-> e.dir, kind |-> "none", val |-> <<>>]
        ELSE IF ~f.exists
        THEN [raised |-> FALSE, dir |-> e.dir, kind |-> "dict", val |-> <<>>]
        ELSE IF f.perm = "locked" \/ ~j.ok
        THEN [raised |-> FALSE, dir |-> e.dir, kind |-> "dict", val |-> <<>>]
        ELSE [raised |-> FALSE, dir |-> e.dir, kind |-> j.kind, val |-> j.val]

\* Store.save: [raised, dir, file].  open(..., "w") replaces the content.
save(d, f, data) ==
    LET e == ensure_dir(d)
    IN  IF e.raised THEN [raised |-> TRUE, dir |-> e.dir, file |-> f]
        ELSE IF f.exists /\ f.perm = "locked"
        THEN [raised |-> TRUE, dir |-> e.dir, file |-> f]
        ELSE [raised |-> FALSE, dir |-> e.dir, file |-> FileOf(dumps(data))]

\* --------------------------------------------------- constants & mappings
\* FEATURES: menu label -> feature, earn page, vrsta.
FEATURES ==
    [yt_like      |-> [feature |-> "youtube",      earn |-> "/user/earn-youtube.php",
                       vrsta |-> "like"],
     yt_subscribe |-> [feature |-> "youtubes",     earn |-> "/user/earn-youtube-subscribe.php",
                       vrsta |-> "subscribe"],
     ig_follow    |-> [feature |-> "instagramfol", earn |-> "/user/earn-instagram-follow.php",
                       vrsta |-> "follow"],
     tw_follow    |-> [feature |-> "twitter",      earn |-> "/user/earn-twitter.php",
                       vrsta |-> "follow"],
     tw_like      |-> [feature |-> "twitterfav",   earn |-> "/user/earn-twitter-favorites.php",
                       vrsta |-> "like"],
     tw_retweet   |-> [feature |-> "twitterret",   earn |-> "/user/earn-twitter-retweet.php",
                       vrsta |-> "retweet"]]

Cookies_Like4Like == <<"C", "o", "o", "k", "i", "e", "s", "_", "L", "i", "k", "e", "4", "L", "i", "k", "e">>
Cookies_Youtube == <<"C", "o", "o", "k", "i", "e", "s", "_", "Y", "o", "u", "t", "u", "b", "e">>
Cookies_Instagram == <<"C", "o", "o", "k", "i", "e", "s", "_", "I", "n", "s", "t", "a", "g", "r", "a", "m">>
Cookies_Twitter == <<"C", "o", "o", "k", "i", "e", "s", "_", "T", "w", "i", "t", "t", "e", "r">>

PLATFORM_COOKIE_KEYS ==
    [yt_like      |-> Cookies_Youtube,
     yt_subscribe |-> Cookies_Youtube,
     ig_follow    |-> Cookies_Instagram,
     tw_follow    |-> Cookies_Twitter,
     tw_like      |-> Cookies_Twitter,
     tw_retweet   |-> Cookies_Twitter]

\* ----------------------------------------------------------- target URL
InstagramBase == <<"h", "t", "t", "p", "s", ":", "/", "/", "w", "w", "w", ".", "i", "n", "s", "t", "a", "g", "r", "a", "m", ".", "c", "o", "m", "/">>
XBase == <<"h", "t", "t", "p", "s", ":", "/", "/", "x", ".", "c", "o", "m", "/">>
YoutubeBase == <<"h", "t", "t", "p", "s", ":", "/", "/", "w", "w", "w", ".", "y", "o", "u", "t", "u", "b", "e", ".", "c", "o", "m", "/">>
WatchPrefix == <<"w", "a", "t", "c", "h", "?", "v", "=">>
ChannelPrefix == <<"c", "h", "a", "n", "n", "e", "l", "/">>
CPrefix == <<"c", "/">>

\* The target URL without the test for the "c/" prefix.
TargetUrlNoCPrefix(feature, idlink) ==
    IF feature = "instagramfol" THEN InstagramBase \o idlink
    ELSE IF feature \in {"twitter", "twitterfav", "twitterret"} THEN XBase \o idlink
    ELSE IF feature \in {"youtube", "youtubes"}
    THEN IF startswith(idlink, WatchPrefix) THEN YoutubeBase \o idlink
         ELSE IF startswith(idlink, ChannelPrefix)
              THEN YoutubeBase \o idlink
              ELSE YoutubeBase \o WatchPrefix \o idlink
    ELSE InstagramBase \o idlink

\* Bot.run, "Determine target URL by feature".
TargetUrl(feature, idlink) ==
    IF feature = "instagramfol" THEN InstagramBase \o idlink
    ELSE IF feature \in {"twitter", "twitterfav", "twitterret"} THEN XBase \o idlink
    ELSE IF feature \in {"youtube", "youtubes"}
    THEN IF startswith(idlink, WatchPrefix) THEN YoutubeBase \o idlink
         ELSE IF startswith(idlink, ChannelPrefix) \/ startswith(idlink, CPrefix)
              THEN YoutubeBase \o idlink
              ELSE YoutubeBase \o WatchPrefix \o idlink
    ELSE InstagramBase \o idlink

\* ------------------------------------------------------------ input sets
\* Texts of at most n characters over the alphabet A.
Texts(A, n) == UNION {[1..k -> A] : k \in 0..n}

\* Characters of the cookie texts saved in the round trip: a plain one, the
\* two JSON escapes itself, a control character and a non-ASCII one.
Alphabet == {"a", "\"", "\\", "\n", NonAscii}

StoreKeys == {<<"k">>, <<"\\">>}

StoreEntries == [k : StoreKeys, v : Texts(Alphabet, MaxLen)]

\* The mappings of string keys to string values handed to Store.save.
StoreDicts ==
    {<<>>} \cup {<<e>> : e \in StoreEntries}
           \cup {<<p[1], p[2]>> :
                   p \in {q \in StoreEntries \X StoreEntries : q[1].k # q[2].k}}

\* What Cookies.json may hold before a call: nothing, a dump, a dump cut
\* short, a compact object with a repeated key, a bare string, no character
\* at all, or a file that cannot be opened.
OldFiles ==
    {NoFile,
     FileOf(<<>>),
     FileOf(dumps(<<[k |-> <<"k">>, v |-> <<"o">>]>>)),
     FileOf(<<"{", "\"", "k", "\"", ":", "\"", "o", "\"", ",", "\"", "k", "\"", ":", "\"", "p", "\"", "}">>),
     FileOf(<<"{", "\"", "k", "\"", ":", " ", "\"", "o", "\"">>),
     FileOf(<<"\"", "o", "\"">>),
     Locked(dumps(<<[k |-> <<"k">>, v |-> <<"o">>]>>))}

\* Target identifiers: a recognized prefix, a near miss or nothing, then a tail.
IdPrefixes == {<<>>, WatchPrefix, ChannelPrefix, CPrefix,
               <<"w", "a", "t", "c", "h", "?", "v">>, <<"c", "h", "a", "n", "n", "e", "l">>, <<"c">>, <<"/", "c", "/">>}

UrlIds == {p \o tl : p \in IdPrefixes, tl \in Texts({"a", "/"}, MaxIdLen)}

FeatureKeys == {FEATURES[c].feature : c \in DOMAIN FEATURES}

\* --------------------------------------------------------------- idle parts
StoreIdle == [last |-> "none", raised |-> FALSE, arg |-> <<>>, kind |-> "none",
              ret |-> <<>>, after |-> FALSE]

UrlIdle == [feature |-> "none", idlink |-> <<>>, target |-> <<>>, done |-> FALSE]

\* get_tasks returned None.
NoTasks == [none |-> TRUE, len |-> 0]

\* No task taken from a listing yet.
NoTask == [isdict |-> FALSE, fields |-> {}, idtype |-> "none", idlink |-> <<>>]

\* The process not started.
BotOff ==
    /\ pc = "off" /\ crashAt = "none" /\ db = <<>> /\ cookies_l4l = <<>>
    /\ info = "unset" /\ credits = 0 /\ delay = 0 /\ choice = "unset"
    /\ platform_cookie = <<>> /\ tasks = NoTasks /\ t = NoTask /\ idx = 0 /\ target_url = <<>>
    /\ processed_any = FALSE /\ total = 0
    /\ nInfo = 0 /\ nPrompt = 0 /\ steps = <<>> /\ started = <<>>
    /\ validated = <<>> /\ lastPass = "none" /\ ticks = 0 /\ flat = "none"

\* ---------------------------------------------- the store, called directly
StoreInit ==
    /\ dirState \in DirStates
    /\ file \in IF dirState = "dir" THEN OldFiles ELSE {NoFile}
    /\ store \in {[StoreIdle EXCEPT !.arg = m] : m \in StoreDicts}
    /\ url = UrlIdle
    /\ BotOff

\* Store.save(m), m the mapping drawn at the start.
DoSave ==
    LET r == save(dirState, file, store.arg)
    IN  /\ dirState' = r.dir
        /\ file' = r.file
        /\ store' = [last |-> "save", raised |-> r.raised, arg |-> store.arg,
                     kind |-> "none", ret |-> <<>>, after |-> FALSE]
        /\ UNCHANGED <<url, runVars, histVars>>

\* Store.load()
DoLoad ==
    LET r == load(dirState, file)
    IN  /\ dirState' = r.dir
        /\ file' = file
        /\ store' = [last |-> "load", raised |-> r.raised, arg |-> store.arg,
                     kind |-> r.kind, ret |-> r.val,
                     after |-> (store.last = "save" /\ ~store.raised)]
        /\ UNCHANGED <<url, runVars, histVars>>

StoreNext == DoSave \/ DoLoad

SpecStore == StoreInit /\ [][StoreNext]_vars

\* --------------------------------------- the target URL, computed directly
UrlInit ==
    /\ dirState = "dir"
    /\ file = NoFile
    /\ store = StoreIdle
    /\ url \in [feature : FeatureKeys, idlink : UrlIds, target : {<<>>}, done : {FALSE}]
    /\ BotOff

ComputeTarget ==
    /\ ~url.done
    /\ url' = [url EXCEPT !.target = TargetUrl(url.feature, url.idlink), !.done = TRUE]
    /\ UNCHANGED <<fsVars, store, runVars, histVars>>

\* The next task: another feature and identifier.
NextTarget ==
    /\ url.done
    /\ \E f \in FeatureKeys, i \in UrlIds :
           url' = [feature |-> f, idlink |-> i, target |-> <<>>, done |-> FALSE]
    /\ UNCHANGED <<fsVars, store, runVars, histVars>>

UrlNext == ComputeTarget \/ NextTarget

SpecUrl == UrlInit /\ [][UrlNext]_vars

\* ------------------------------------------------------------ console input
Digits == <<"0", "1", "2", "3", "4", "5", "6", "7", "8", "9">>

IsDigit(c) == \E i \in 1..10 : Digits[i] = c

DigitVal(c) == (CHOOSE i \in 1..10 : Digits[i] = c) - 1

RECURSIVE Num(_)
Num(s) == IF s = <<>> THEN 0 ELSE Num(SubSeq(s, 1, Len(s) - 1)) * 10 + DigitVal(s[Len(s)])

Unsigned(s) == IF s # <<>> /\ s[1] \in {"+", "-"} THEN Tail(s) ELSE s

\* Whether int(s) returns (an optional sign, then digits) or raises ValueError.
IsInt(s) == LET b == Unsigned(strip(s))
            IN  b # <<>> /\ \A i \in 1..Len(b) : IsDigit(b[i])

\* int(s)
int(s) == LET b == strip(s)
          IN  IF b # <<>> /\ b[1] = "-" THEN 0 - Num(Unsigned(b)) ELSE Num(Unsigned(b))

\* The delay taken when the text typed is no number.
DefaultDelay == 60

\* What the user types at a cookie prompt: an empty line or a cookie text.
CookieInputs == {<<>>, <<"s">>}

\* What the user types at the delay prompt.
DelayInputs == {<<>>, <<"a">>, <<"0">>, <<"-", "1">>}
                   \cup {<<" ", Digits[n + 1]>> : n \in 1..MaxDelay}

\* What the user types at the menu.
MenuInputs == {<<Digits[n + 1]>> : n \in 1..8} \cup {<<>>, <<" ", "3", " ">>}

\* menu(): the label of the choice typed, "" for anything else.
menu(text) ==
    LET c == strip(text)
    IN  CASE c = <<"1">> -> "yt_like"
          [] c = <<"2">> -> "yt_subscribe"
          [] c = <<"3">> -> "ig_follow"
          [] c = <<"4">> -> "tw_follow"
          [] c = <<"5">> -> "tw_like"
          [] c = <<"6">> -> "tw_retweet"
          [] c = <<"7">> -> "exit"
          [] OTHER -> ""

\* -------------------------------------------------- the rewards site's answers
\* What get_user_info returns: None, an empty data object, a data object
\* with username and credits, one whose credits are no number, a list.
InfoResults == {"none", "empty", "alice", "badcredits", "list"}

\* Python's truth value of an info.
Truthy(i) == i \in {"alice", "badcredits", "list"}

\* int(info.get('credits', 0)) if isinstance(info, dict) else 0
InfoCredits(i) == IF i = "alice" THEN 120 ELSE 0

AllFields == {"idlink", "taskId", "code3"}

\* A task of a listing: a JSON object with some of the fields, whose idlink is
\* a string or a number, or a JSON value that is no object.
TaskShapes ==
    {[isdict |-> TRUE, fields |-> AllFields, idtype |-> "str", idlink |-> <<"u">>],
     [isdict |-> TRUE, fields |-> AllFields, idtype |-> "int", idlink |-> <<"7">>],
     [isdict |-> TRUE, fields |-> {"taskId", "code3"}, idtype |-> "str", idlink |-> <<>>],
     [isdict |-> TRUE, fields |-> {"idlink", "taskId"}, idtype |-> "str", idlink |-> <<"u">>],
     [isdict |-> FALSE, fields |-> {}, idtype |-> "str", idlink |-> <<>>]}

\* What get_tasks returns: None or a list of tasks.  The for loop reads the
\* list's tasks one by one and nothing else reads them, so the model keeps
\* the list's length and draws each task when the loop takes it.
TaskResults == {NoTasks} \cup {[none |-> FALSE, len |-> n] : n \in 0..MaxTasks}

\* What validate returns: None or the digits of the new balance.
ValidateResults == {[some |-> FALSE, val |-> <<>>],
                    [some |-> TRUE, val |-> <<"1", "2", "5">>]}

\* ------------------------------------------------------------------- Bot
Feature == FEATURES[choice].feature

\* Positions of the for loop's body.
TaskPcs == {"start", "url", "check", "action", "wait_validate", "validate", "fail_wait"}

\* Positions of the while loop.
LoopPcs == {"warmup", "get_tasks", "no_tasks", "for", "after", "countdown", "flat_wait"}
               \cup TaskPcs

\* What the files may hold when the process starts.
BotFiles ==
    {NoFile,
     FileOf(dumps(<<[k |-> Cookies_Like4Like, v |-> <<"s">>]>>)),
     FileOf(dumps(<<[k |-> Cookies_Like4Like, v |-> <<"s">>],
                    [k |-> Cookies_Youtube, v |-> <<"y">>],
                    [k |-> Cookies_Instagram, v |-> <<"i">>],
                    [k |-> Cookies_Twitter, v |-> <<"t">>]>>)),
     FileOf(SubSeq(dumps(<<[k |-> Cookies_Like4Like, v |-> <<"s">>]>>), 1, 9)),
     FileOf(<<"\"", "s", "\"">>),
     Locked(dumps(<<[k |-> Cookies_Like4Like, v |-> <<"s">>]>>))}

Init ==
    /\ dirState \in DirStates
    /\ file \in IF dirState = "dir" THEN BotFiles ELSE {NoFile}
    /\ store = StoreIdle
    /\ url = UrlIdle
    /\ pc = "new" /\ crashAt = "none" /\ db = <<>> /\ cookies_l4l = <<>>
    /\ info = "unset" /\ credits = 0 /\ delay = 0 /\ choice = "unset"
    /\ platform_cookie = <<>> /\ tasks = NoTasks /\ t = NoTask
    /\ idx = 0 /\ target_url = <<>> /\ processed_any = FALSE /\ total = 0
    /\ nInfo = 0 /\ nPrompt = 0 /\ steps = <<>> /\ started = <<>>
    /\ validated = <<>> /\ lastPass = "none" /\ ticks = 0 /\ flat = "none"

\* An exception leaves run() and ends the process (the handlers of __main__).
Crash(where) == pc' = "crashed" /\ crashAt' = where

\* Bot.__init__
BotInit ==
    /\ pc = "new"
    /\ LET e == ensure_dir(dirState)
           r == load(e.dir, file)
       IN  /\ dirState' = e.dir
           /\ IF e.raised THEN Crash("init") /\ UNCHANGED <<db, cookies_l4l>>
              ELSE IF r.kind # "dict" THEN Crash("init") /\ UNCHANGED <<db, cookies_l4l>>
              ELSE /\ db' = r.val
                   /\ cookies_l4l' = Get(r.val, Cookies_Like4Like, <<>>)
                   /\ pc' = "run"
                   /\ UNCHANGED crashAt
    /\ UNCHANGED <<file, store, url, info, credits, delay, choice, platform_cookie,
                   tasks, t, idx, target_url, processed_any, total, histVars>>

\* Bot.request_l4l_cookies, text the line typed, next the position after it.
request_l4l_cookies(text, next) ==
    LET d == Put(db, Cookies_Like4Like, text)
        r == save(dirState, file, d)
    IN  /\ cookies_l4l' = text
        /\ db' = d
        /\ dirState' = r.dir
        /\ file' = r.file
        /\ IF r.raised THEN Crash("save") ELSE pc' = next /\ UNCHANGED crashAt

\* Bot.run: "Ensure L4L cookies exist/valid", up to the client's construction.
RunBegin ==
    /\ pc = "run"
    /\ IF cookies_l4l = <<>>
       THEN \E text \in CookieInputs : request_l4l_cookies(text, "userinfo")
       ELSE pc' = "userinfo" /\ UNCHANGED <<crashAt, db, cookies_l4l, fsVars>>
    /\ UNCHANGED <<store, url, info, credits, delay, choice, platform_cookie,
                   tasks, t, idx, target_url, processed_any, total, histVars>>

\* Bot.run: the first get_user_info call.
GetUserInfoFirst ==
    /\ pc = "userinfo"
    /\ \E r \in InfoResults :
          /\ info' = r
          /\ pc' = IF Truthy(r) THEN "status" ELSE "invalid"
    /\ nInfo' = nInfo + 1
    /\ UNCHANGED <<fsVars, store, url, crashAt, db, cookies_l4l, credits, delay, choice,
                   platform_cookie, tasks, t, idx, target_url, processed_any, total,
                   nPrompt, steps, started, validated, lastPass, ticks, flat>>

\* Bot.run: the cookies were refused; ten seconds, then the prompt again.
ReenterCookies ==
    /\ pc = "invalid"
    /\ \E text \in CookieInputs : request_l4l_cookies(text, "userinfo2")
    /\ nPrompt' = nPrompt + 1
    /\ UNCHANGED <<store, url, info, credits, delay, choice, platform_cookie, tasks, t, idx,
                   target_url, processed_any, total,
                   nInfo, steps, started, validated, lastPass, ticks, flat>>

\* The retry that goes back to the prompt when it fails.
GetUserInfoRetryAgain ==
    /\ pc = "userinfo2"
    /\ \E r \in InfoResults :
          /\ info' = r
          /\ pc' = IF Truthy(r) THEN "status" ELSE "invalid"
    /\ nInfo' = nInfo + 1
    /\ UNCHANGED <<fsVars, store, url, crashAt, db, cookies_l4l, credits, delay, choice,
                   platform_cookie, tasks, t, idx, target_url, processed_any, total,
                   nPrompt, steps, started, validated, lastPass, ticks, flat>>

\* Bot.run: the second get_user_info call; run returns when it fails too.
GetUserInfoRetry ==
    /\ pc = "userinfo2"
    /\ \E r \in InfoResults :
          /\ info' = r
          /\ pc' = IF Truthy(r) THEN "status" ELSE "failed"
    /\ nInfo' = nInfo + 1
    /\ UNCHANGED <<fsVars, store, url, crashAt, db, cookies_l4l, credits, delay, choice,
                   platform_cookie, tasks, t, idx, target_url, processed_any, total,
                   nPrompt, steps, started, validated, lastPass, ticks, flat>>

\* Bot.run: username and credits of the info, banner and status.
ShowStatus ==
    /\ pc = "status"
    /\ IF info = "badcredits"
       THEN Crash("credits") /\ UNCHANGED credits
       ELSE credits' = InfoCredits(info) /\ pc' = "delay" /\ UNCHANGED crashAt
    /\ UNCHANGED <<fsVars, store, url, db, cookies_l4l, info, delay, choice,
                   platform_cookie, tasks, t, idx, target_url, processed_any, total,
                   histVars>>

\* Bot.run: "Delay input".
ReadDelay ==
    /\ pc = "delay"
    /\ \E text \in DelayInputs :
          delay' = IF IsInt(text) THEN int(text) ELSE DefaultDelay
    /\ pc' = "menu"
    /\ UNCHANGED <<fsVars, store, url, crashAt, db, cookies_l4l, info, credits, choice,
                   platform_cookie, tasks, t, idx, target_url, processed_any, total,
                   histVars>>

\* Bot.run: the menu, shown once.
ChooseMenu ==
    /\ pc = "menu"
    /\ \E text \in MenuInputs :
          /\ choice' = menu(text)
          /\ pc' = IF menu(text) \in {"exit", ""} THEN "exited" ELSE "platform"
    /\ UNCHANGED <<fsVars, store, url, crashAt, db, cookies_l4l, info, credits, delay,
                   platform_cookie, tasks, t, idx, target_url, processed_any, total,
                   histVars>>

\* Bot.ensure_platform_cookies(key, label), called from run.
ensure_platform_cookies(key) ==
    LET val == Get(db, key, <<>>)
    IN  IF val # <<>>
        THEN /\ platform_cookie' = val
             /\ pc' = "warmup"
             /\ UNCHANGED <<crashAt, db, fsVars>>
        ELSE \E text \in CookieInputs :
                LET d == Put(db, key, text)
                    r == save(dirState, file, d)
                IN  /\ db' = d
                    /\ dirState' = r.dir
                    /\ file' = r.file
                    /\ IF r.raised
                       THEN Crash("save") /\ UNCHANGED platform_cookie
                       ELSE /\ platform_cookie' = text
                            /\ pc' = "warmup"
                            /\ UNCHANGED crashAt

\* Bot.run: the feature chosen and its platform's cookies.
EnsurePlatform ==
    /\ pc = "platform"
    /\ ensure_platform_cookies(PLATFORM_COOKIE_KEYS[choice])
    /\ UNCHANGED <<store, url, cookies_l4l, info, credits, delay, choice, tasks, t, idx,
                   target_url, processed_any, total, histVars>>

\* L4L.warmup: a GET outside any try, with no timeout.
warmup_results == {"ok", "raised"}

\* Bot.run: client.warmup(earn), the first statement of the while loop.
Warmup ==
    /\ pc = "warmup"
    /\ \E r \in warmup_results :
          IF r = "raised"
          THEN Crash("warmup") /\ UNCHANGED <<lastPass, ticks, flat>>
          ELSE /\ pc' = "get_tasks"
               /\ lastPass' = "none" /\ ticks' = 0 /\ flat' = "none"
               /\ UNCHANGED crashAt
    /\ UNCHANGED <<fsVars, store, url, db, cookies_l4l, info, credits, delay, choice,
                   platform_cookie, tasks, t, idx, target_url, processed_any, total,
                   nInfo, nPrompt, steps, started, validated>>

\* Bot.run: "fetch tasks"; None and the empty list both wait and start over.
GetTasks ==
    /\ pc = "get_tasks"
    /\ \E r \in TaskResults :
          /\ tasks' = r
          /\ IF r.none \/ r.len = 0
             THEN /\ pc' = "no_tasks"
                  /\ UNCHANGED <<processed_any, idx, steps, started, validated>>
             ELSE /\ pc' = "for"
                  /\ processed_any' = FALSE
                  /\ idx' = 0
                  /\ steps' = <<>> /\ started' = <<>> /\ validated' = <<>>
    /\ UNCHANGED <<fsVars, store, url, crashAt, db, cookies_l4l, info, credits, delay,
                   choice, platform_cookie, t, target_url, total,
                   nInfo, nPrompt, lastPass, ticks, flat>>

\* Bot.run: no task; ten seconds, then the next iteration.
NoTasksWait ==
    /\ pc = "no_tasks"
    /\ pc' = "warmup"
    /\ lastPass' = "empty"
    /\ flat' = "no_tasks"
    /\ UNCHANGED <<fsVars, store, url, crashAt, db, cookies_l4l, info, credits, delay,
                   choice, platform_cookie, tasks, t, idx, target_url, processed_any, total,
                   nInfo, nPrompt, steps, started, validated, ticks>>

\* Bot.run: the for loop takes the next task and reads its three fields;
\* only KeyError is caught, and subscripting a task that is no object raises
\* TypeError.
NextTask ==
    /\ pc = "for"
    /\ IF idx = tasks.len
       THEN pc' = "after" /\ UNCHANGED <<crashAt, idx, steps, t>>
       ELSE \E task \in TaskShapes :
               /\ t' = task
               /\ idx' = idx + 1
               /\ IF ~task.isdict
                  THEN Crash("descriptor") /\ steps' = <<>>
                  ELSE IF task.fields # AllFields
                  THEN /\ pc' = "fail_wait"
                       /\ steps' = <<[op |-> "descriptor", ok |-> FALSE, task |-> idx + 1]>>
                       /\ UNCHANGED crashAt
                  ELSE /\ pc' = "start"
                       /\ steps' = <<>>
                       /\ UNCHANGED crashAt
    /\ UNCHANGED <<fsVars, store, url, db, cookies_l4l, info, credits, delay, choice,
                   platform_cookie, tasks, target_url, processed_any, total,
                   nInfo, nPrompt, started, validated, lastPass, ticks, flat>>

\* The wait after which the for loop takes the same task again.
FailWaitRetry ==
    /\ pc = "fail_wait"
    /\ pc' = "for"
    /\ steps' = Append(steps, [op |-> "sleep10", ok |-> TRUE, task |-> idx])
    /\ idx' = idx - 1
    /\ t' = NoTask /\ target_url' = <<>>
    /\ UNCHANGED <<fsVars, store, url, crashAt, db, cookies_l4l, info, credits, delay,
                   choice, platform_cookie, tasks, processed_any, total,
                   nInfo, nPrompt, started, validated, lastPass, ticks, flat>>

\* Bot.run: a step of the task failed; the message, ten seconds, continue.
\* The task's variables are dead from here: the model forgets them.
FailWait ==
    /\ pc = "fail_wait"
    /\ pc' = "for"
    /\ steps' = Append(steps, [op |-> "sleep10", ok |-> TRUE, task |-> idx])
    /\ t' = NoTask /\ target_url' = <<>>
    /\ UNCHANGED <<fsVars, store, url, crashAt, db, cookies_l4l, info, credits, delay,
                   choice, platform_cookie, tasks, idx, processed_any, total,
                   nInfo, nPrompt, started, validated, lastPass, ticks, flat>>

\* Bot.run: "Start task".
StartTask ==
    /\ pc = "start"
    /\ \E ok \in BOOLEAN :
          /\ steps' = Append(steps, [op |-> "start_task", ok |-> ok, task |-> idx])
          /\ pc' = IF ok THEN "url" ELSE "fail_wait"
    /\ started' = Append(started, idx)
    /\ UNCHANGED <<fsVars, store, url, crashAt, db, cookies_l4l, info, credits, delay,
                   choice, platform_cookie, tasks, t, idx, target_url, processed_any, total,
                   nInfo, nPrompt, validated, lastPass, ticks, flat>>

\* Bot.run: "Determine target URL by feature"; idlink.startswith raises
\* AttributeError for an idlink that is no string.
ComputeUrl ==
    /\ pc = "url"
    /\ IF t.idtype # "str" /\ Feature \in {"youtube", "youtubes"}
       THEN Crash("url") /\ UNCHANGED target_url
       ELSE /\ target_url' = TargetUrl(Feature, t.idlink)
            /\ pc' = "check"
            /\ UNCHANGED crashAt
    /\ UNCHANGED <<fsVars, store, url, db, cookies_l4l, info, credits, delay, choice,
                   platform_cookie, tasks, t, idx, processed_any, total, histVars>>

\* The gate that lets a refused URL through.
CheckUrlIgnored ==
    /\ pc = "check"
    /\ \E ok \in BOOLEAN :
          /\ steps' = Append(steps, [op |-> "check_url", ok |-> ok, task |-> idx])
          /\ pc' = "action"
    /\ UNCHANGED <<fsVars, store, url, crashAt, db, cookies_l4l, info, credits, delay,
                   choice, platform_cookie, tasks, t, idx, target_url, processed_any, total,
                   nInfo, nPrompt, started, validated, lastPass, ticks, flat>>

\* Bot.run: "checkurl gate".
CheckUrl ==
    /\ pc = "check"
    /\ \E ok \in BOOLEAN :
          /\ steps' = Append(steps, [op |-> "check_url", ok |-> ok, task |-> idx])
          /\ pc' = IF ok THEN "action" ELSE "fail_wait"
    /\ UNCHANGED <<fsVars, store, url, crashAt, db, cookies_l4l, info, credits, delay,
                   choice, platform_cookie, tasks, t, idx, target_url, processed_any, total,
                   nInfo, nPrompt, started, validated, lastPass, ticks, flat>>

\* Bot.run: "Perform platform action": Actions.instagram_follow for the
\* Instagram feature, Actions.open_with_cookies for the others; both catch
\* every exception and return a boolean.
PlatformAction ==
    /\ pc = "action"
    /\ \E ok \in BOOLEAN :
          /\ steps' = Append(steps, [op |-> IF Feature = "instagramfol"
                                            THEN "instagram_follow"
                                            ELSE "open_with_cookies",
                                     ok |-> ok, task |-> idx])
          /\ pc' = IF ok THEN "wait_validate" ELSE "fail_wait"
    /\ UNCHANGED <<fsVars, store, url, crashAt, db, cookies_l4l, info, credits, delay,
                   choice, platform_cookie, tasks, t, idx, target_url, processed_any, total,
                   nInfo, nPrompt, started, validated, lastPass, ticks, flat>>

\* Bot.run: time.sleep(10), "Delay sebelum validasi".
WaitValidate ==
    /\ pc = "wait_validate"
    /\ pc' = "validate"
    /\ steps' = Append(steps, [op |-> "sleep10", ok |-> TRUE, task |-> idx])
    /\ UNCHANGED <<fsVars, store, url, crashAt, db, cookies_l4l, info, credits, delay,
                   choice, platform_cookie, tasks, t, idx, target_url, processed_any, total,
                   nInfo, nPrompt, started, validated, lastPass, ticks, flat>>

\* The validation that goes on with the next task after a success.
ValidateNoBreak ==
    /\ pc = "validate"
    /\ \E r \in ValidateResults :
          /\ steps' = Append(steps, [op |-> "validate", ok |-> r.some, task |-> idx])
          /\ IF r.some
             THEN /\ credits' = int(r.val)
                  /\ processed_any' = TRUE
                  /\ validated' = Append(validated, [task |-> idx, ret |-> r.val])
                  /\ pc' = "for"
             ELSE /\ pc' = "fail_wait"
                  /\ UNCHANGED <<credits, processed_any, validated>>
    /\ UNCHANGED <<fsVars, store, url, crashAt, db, cookies_l4l, info, delay, choice,
                   platform_cookie, tasks, t, idx, target_url, total,
                   nInfo, nPrompt, started, lastPass, ticks, flat>>

\* Bot.run: "validate"; a success sets credits and breaks out of the for loop.
Validate ==
    /\ pc = "validate"
    /\ \E r \in ValidateResults :
          /\ steps' = Append(steps, [op |-> "validate", ok |-> r.some, task |-> idx])
          /\ IF r.some
             THEN /\ credits' = int(r.val)
                  /\ processed_any' = TRUE
                  /\ validated' = Append(validated, [task |-> idx, ret |-> r.val])
                  /\ pc' = "after"
             ELSE /\ pc' = "fail_wait"
                  /\ UNCHANGED <<credits, processed_any, validated>>
    /\ UNCHANGED <<fsVars, store, url, crashAt, db, cookies_l4l, info, delay, choice,
                   platform_cookie, tasks, t, idx, target_url, total,
                   nInfo, nPrompt, started, lastPass, ticks, flat>>

\* Bot.run: "Delay counter": the countdown's start after a success (its while
\* loop is not entered when delay is not positive), the flat wait otherwise.
\* The for loop's variables are dead from here to the next listing, which
\* assigns them before any read: the model forgets them.
AfterPass ==
    /\ pc = "after"
    /\ IF processed_any
       THEN /\ total' = delay
            /\ lastPass' = "success"
            /\ pc' = IF delay > 0 THEN "countdown" ELSE "warmup"
       ELSE /\ lastPass' = "fail"
            /\ pc' = "flat_wait"
            /\ UNCHANGED total
    /\ tasks' = NoTasks /\ t' = NoTask /\ idx' = 0 /\ target_url' = <<>>
    /\ steps' = <<>> /\ started' = <<>> /\ validated' = <<>>
    /\ UNCHANGED <<fsVars, store, url, crashAt, db, cookies_l4l, info, credits, delay,
                   choice, platform_cookie, processed_any, nInfo, nPrompt, ticks, flat>>

\* The countdown that takes two off the total each second.
CountdownTickTwo ==
    /\ pc = "countdown"
    /\ ticks' = ticks + 1
    /\ total' = total - 2
    /\ pc' = IF total - 2 > 0 THEN "countdown" ELSE "warmup"
    /\ UNCHANGED <<fsVars, store, url, crashAt, db, cookies_l4l, info, credits, delay,
                   choice, platform_cookie, tasks, t, idx, target_url, processed_any,
                   nInfo, nPrompt, steps, started, validated, lastPass, flat>>

\* Bot.run: one round of the countdown: the time left, time.sleep(1), total -= 1.
CountdownTick ==
    /\ pc = "countdown"
    /\ ticks' = ticks + 1
    /\ total' = total - 1
    /\ pc' = IF total - 1 > 0 THEN "countdown" ELSE "warmup"
    /\ UNCHANGED <<fsVars, store, url, crashAt, db, cookies_l4l, info, credits, delay,
                   choice, platform_cookie, tasks, t, idx, target_url, processed_any,
                   nInfo, nPrompt, steps, started, validated, lastPass, flat>>

\* Bot.run: no task was processed; the message and ten seconds.
FlatWait ==
    /\ pc = "flat_wait"
    /\ pc' = "warmup"
    /\ flat' = "flat"
    /\ UNCHANGED <<fsVars, store, url, crashAt, db, cookies_l4l, info, credits, delay,
                   choice, platform_cookie, tasks, t, idx, target_url, processed_any, total,
                   nInfo, nPrompt, steps, started, validated, lastPass, ticks>>

Next ==
    \/ BotInit
    \/ RunBegin
    \/ GetUserInfoFirst
    \/ ReenterCookies
    \/ GetUserInfoRetry
    \/ ShowStatus
    \/ ReadDelay
    \/ ChooseMenu
    \/ EnsurePlatform
    \/ Warmup
    \/ GetTasks
    \/ NoTasksWait
    \/ NextTask
    \/ FailWait
    \/ StartTask
    \/ ComputeUrl
    \/ CheckUrl
    \/ PlatformAction
    \/ WaitValidate
    \/ Validate
    \/ AfterPass
    \/ CountdownTick
    \/ FlatWait

Spec == Init /\ [][Next]_vars

\* ------------------------------------------------------------------ claims
\* The keys the program writes.
CookieKeys == {Cookies_Like4Like, Cookies_Youtube, Cookies_Instagram, Cookies_Twitter}

\* Positions run reaches after the user-info check.
PastUserInfo == {"status", "delay", "menu", "platform", "exited"} \cup LoopPcs

ActionOps == {"instagram_follow", "open_with_cookies"}

\* C1: no exception raised by a call of the rewards-site client ends the
\* process; warmup's transport failure is swallowed like the others'.
ClientCallsNeverPropagate == ~(pc = "crashed" /\ crashAt = "warmup")

\* C2: get_user_info is called at most twice; after a failed first call the
\* replacement prompt is shown once and the call retried once; run returns
\* after a failed retry; the delay prompt, the menu and the loop are reached
\* only with an info that passed the check.
UserInfoRetriedOnce ==
    /\ nInfo <= 2 /\ nPrompt <= 1
    /\ nPrompt = 1 => nInfo >= 1
    /\ nInfo = 2 => nPrompt = 1
    /\ pc = "invalid" => nInfo = 1 /\ nPrompt = 0 /\ ~Truthy(info)
    /\ pc = "userinfo2" => nInfo = 1 /\ nPrompt = 1 /\ ~Truthy(info)
    /\ pc = "failed" => nInfo = 2 /\ nPrompt = 1 /\ ~Truthy(info)
    /\ pc \in PastUserInfo => nInfo \in 1..2 /\ Truthy(info)
    /\ (pc = "crashed" /\ crashAt \notin {"init", "save"}) => nInfo \in 1..2 /\ Truthy(info)

\* C2's case: both calls failed and run returned.
RetryFailedTwice == pc = "failed" /\ nInfo = 2 /\ nPrompt = 1

\* C3, as amended: after a pass with a success the loop sleeps one second
\* delay times when delay is positive and not at all otherwise, before the
\* next warmup; the flat ten seconds are waited only after a pass without a
\* success.
CountdownAfterSuccess ==
    /\ (pc = "warmup" /\ lastPass = "success")
          => ticks = (IF delay > 0 THEN delay ELSE 0) /\ flat = "none"
    /\ pc = "countdown"
          => lastPass = "success" /\ total > 0 /\ ticks + total = delay /\ flat = "none"
    /\ lastPass = "success" => processed_any
    /\ (pc = "flat_wait" \/ flat = "flat") => lastPass = "fail" /\ ~processed_any /\ ticks = 0

\* C3's case: a success, then the whole countdown of a delay of two seconds.
CountedDownAfterSuccess ==
    pc = "warmup" /\ lastPass = "success" /\ delay = 2 /\ ticks = 2 /\ credits = 125

\* C3 as stated: whatever the delay typed, a pass with a success is never
\* followed by the next warmup without a wait.
SuccessAlwaysWaits == (pc = "warmup" /\ lastPass = "success") => ticks > 0

\* C4: a pass in which no task is validated never ends the process: no
\* exception leaves the for loop, and the warmup after the flat wait does
\* not raise.
FailedPassListsAgain ==
    /\ ~(pc = "crashed" /\ crashAt \in {"descriptor", "url"})
    /\ ~(pc = "crashed" /\ crashAt = "warmup" /\ lastPass = "fail")

\* C5: Store.load never raises.
LoadNeverRaises == store.last = "load" => ~store.raised

\* C6: Store.load right after a Store.save(m) that returned gives a mapping
\* equal to m.
SaveLoadRoundTrip ==
    (store.last = "load" /\ store.after)
        => /\ ~store.raised
           /\ store.kind = "dict"
           /\ DictEq(store.ret, store.arg)

\* C6's case: two keys, one of them a backslash, one of the values a quote,
\* saved and loaded.
RoundTripOfEscapes ==
    /\ store.last = "load" /\ store.after
    /\ Len(store.arg) = 2
    /\ \E i \in 1..2 : store.arg[i].k = <<"\\">> /\ store.arg[i].v = <<"\"">>

\* C7: each of the program's keys has no entry or a non-empty string, in
\* memory and in the file.
CookieValuesNonEmpty ==
    /\ \A key \in CookieKeys : Has(db, key) => Get(db, key, <<>>) # <<>>
    /\ LET j == loads(file.text)
       IN  (file.exists /\ j.ok /\ j.kind = "dict")
              => \A key \in CookieKeys : Has(j.val, key) => Get(j.val, key, <<>>) # <<>>

\* An identifier that starts with one of the three recognized prefixes.
Recognized(id) ==
    \E n \in 1..Len(id) :
        SubSeq(id, 1, n) \in {WatchPrefix, ChannelPrefix, CPrefix}

\* C8: the target URL follows the template of its feature, and a YouTube
\* identifier with a recognized prefix is not put behind watch?v=.
TargetUrlTemplates ==
    url.done =>
        /\ url.feature = "instagramfol" => url.target = InstagramBase \o url.idlink
        /\ url.feature \in {"twitter", "twitterfav", "twitterret"}
              => url.target = XBase \o url.idlink
        /\ (url.feature \in {"youtube", "youtubes"} /\ Recognized(url.idlink))
              => /\ url.target = YoutubeBase \o url.idlink
                 /\ url.target # YoutubeBase \o WatchPrefix \o url.idlink
        /\ (url.feature \in {"youtube", "youtubes"} /\ ~Recognized(url.idlink))
              => url.target = YoutubeBase \o WatchPrefix \o url.idlink

\* C8's case: a "c/" channel path for the subscribe feature.
ChannelPathKept ==
    /\ url.done /\ url.feature = "youtubes"
    /\ url.idlink = CPrefix \o <<"a">>
    /\ url.target = YoutubeBase \o url.idlink

\* C9: a validate call is the fifth thing done for its task, after
\* start_task, check_url and the platform action all succeeded, in that
\* order, and after the ten seconds' sleep; once a step has failed nothing
\* but the ten seconds' wait follows for that task.
ValidateAfterGates ==
    /\ \A k \in 1..Len(steps) :
          /\ steps[k].task = idx
          /\ steps[k].op = "validate" =>
                /\ k = 5
                /\ steps[1] = [op |-> "start_task", ok |-> TRUE, task |-> idx]
                /\ steps[2] = [op |-> "check_url", ok |-> TRUE, task |-> idx]
                /\ steps[3].op \in ActionOps /\ steps[3].ok
                /\ steps[4] = [op |-> "sleep10", ok |-> TRUE, task |-> idx]
          /\ ~steps[k].ok => \A j \in (k + 1)..Len(steps) : steps[j].op = "sleep10"
    /\ pc = "validate" => Len(steps) = 4 /\ steps[4].op = "sleep10"

\* C9's case: the second task of a listing was validated.
SecondTaskValidated ==
    /\ idx = 2 /\ Len(steps) = 5
    /\ steps[5] = [op |-> "validate", ok |-> TRUE, task |-> 2]

\* C10: a validation success sets credits to the value validate returned
\* and ends the pass: the for loop is left at once, so no later task is
\* started and no second task of the listing is validated.
SuccessEndsListing ==
    /\ Len(validated) <= 1
    /\ validated # <<>> =>
          /\ pc = "after"
          /\ processed_any
          /\ validated[1].task = idx
          /\ credits = int(validated[1].ret)
          /\ started # <<>> /\ started[Len(started)] = idx

\* C10's case: the first task of a longer listing was validated.
FirstTaskValidated ==
    /\ validated # <<>> /\ idx = 1 /\ tasks.len > 1 /\ credits = 125

\* The ten seconds' wait as the history records it.
Sleep10(i) == [op |-> "sleep10", ok |-> TRUE, task |-> i]

\* Where start_task has been called within the listing: for tasks the loop
\* has taken, in the listed order, for none of them twice; a start failure
\* is followed by the ten seconds' wait and by nothing else for that task.
StartedInOrder ==
    /\ idx \in 0..tasks.len
    /\ \A i \in 1..Len(started) : started[i] \in 1..idx
    /\ \A i, j \in 1..Len(started) : i < j => started[i] < started[j]
    /\ pc = "start" => \A i \in 1..Len(started) : started[i] < idx
    /\ pc \in {"url", "check", "action", "wait_validate", "validate"}
          => started # <<>> /\ started[Len(started)] = idx
    /\ (steps # <<>> /\ steps[1] = [op |-> "start_task", ok |-> FALSE, task |-> idx])
          => \/ pc = "fail_wait" /\ Len(steps) = 1
             \/ pc \in {"for", "after"} /\ steps = <<steps[1], Sleep10(idx)>>

\* One step of the program within a listing: the loop goes from a task to
\* the one listed after it and never back, start_task is called for the task
\* the loop is at, and the wait after a failure hands over to the for loop
\* without another call for that task.
ListedOrderStep ==
    /\ idx' # idx => \/ pc = "for" /\ idx' = idx + 1
                     \/ pc \in {"get_tasks", "after"} /\ idx' = 0
    /\ started' # started => \/ pc = "start" /\ started' = Append(started, idx)
                             \/ pc \in {"get_tasks", "after"} /\ started' = <<>>
    /\ pc = "fail_wait" => /\ pc' = "for" /\ idx' = idx /\ started' = started
                           /\ steps' = Append(steps, Sleep10(idx))

\* C11: within one listing the tasks are attempted in the listed order and
\* start_task is called at most once for each: after a start failure the loop
\* waits ten seconds and goes on to the next task, and no task is taken again
\* before the next get_tasks call.
StartOncePerTaskInOrder == []StartedInOrder /\ [][ListedOrderStep]_vars

\* C11's case: both tasks of a listing were started once each, the second
\* start failed and was followed by the ten seconds' wait, and the for loop
\* ended there.
BothStartedOnce ==
    /\ pc = "after" /\ idx = 2 /\ started = <<1, 2>>
    /\ steps = <<[op |-> "start_task", ok |-> FALSE, task |-> 2], Sleep10(2)>>

\* A task that lacks one of the fields the loop reads, whatever kind of JSON
\* value it is.
Malformed(task) == ~task.isdict \/ task.fields # AllFields

\* C12: a task of the listing that lacks idlink, taskId or code3, whatever
\* its shape, is only skipped: the loop goes to the ten seconds' wait with no
\* start_task, check_url, action or validate call made for it, and the
\* process does not end.
MalformedTaskOnlySkipped ==
    (t # NoTask /\ Malformed(t))
        => /\ pc = "fail_wait"
           /\ steps = <<[op |-> "descriptor", ok |-> FALSE, task |-> idx]>>
           /\ \A i \in 1..Len(started) : started[i] # idx

=============================================================================
